---- MODULE Spec2Model ----
(***************************************************************************)
(* Model of rumbo_http_client (src/src/lib.rs): HttpClient::fetch with its *)
(* transport stages, HttpClient::build_request, HttpClient::read_response  *)
(* and Response::parse / parse_status_line / is_success / header.          *)
(*                                                                         *)
(* Text is a sequence of one-character strings.  The characters CR, LF,    *)
(* SP and TAB are written symbolically.  A byte string on a connection is  *)
(* a sequence of runs <<byte, count>> so that blocks larger than the 4096  *)
(* byte read buffer can be represented.                                    *)
(***************************************************************************)
EXTENDS Integers, Sequences, FiniteSets, TLC

VARIABLES
    text,       \* make_request: response_str, the &str given to Response::parse
    parsed,     \* Option of the Result returned by Response::parse
    reported,   \* Option of the Result make_request returns for it
    rstatus,    \* Response.status of a directly constructed Response
    rsuccess,   \* Option of the value returned by is_success()
    breq,       \* build_request: its arguments [method, host, full_path, body]
    bout,       \* Option of the Result returned by build_request
    tls,        \* the build: whether the "tls" feature is compiled in
    active,     \* the fetch calls the process is driving
    url,        \* fetch: the url argument of each call
    method,     \* fetch: the method argument of each call
    body,       \* fetch: the body argument of each call
    pc,         \* the stage each call is about to run
    log,        \* the stages each call has run, with their outcome
    request,    \* make_request: Option of the request text built
    wire,       \* the bytes each call has written to its stream
    script,     \* the chunks the peer of each connection has yet to send
    inflight,   \* the bytes sent by the peer and not yet read
    sent,       \* all the bytes the peer has sent on each connection
    peer,       \* each connection's peer: none, open, closed or reset
    response,   \* read_response: the Vec<u8> accumulated by each call
    result      \* the Result<Response, HttpError> each call returned

parseVars == <<text, parsed, reported>>
successVars == <<rstatus, rsuccess>>
buildVars == <<breq, bout>>
inputVars == <<tls, active, url, method, body>>
otherVars == <<text, parsed, reported, rstatus, rsuccess, breq, bout>>
fetchVars == <<tls, active, url, method, body, pc, log, request, wire, script, inflight,
               sent, peer, response, result>>

vars == <<text, parsed, reported, rstatus, rsuccess, breq, bout, tls, active, url, method,
          body, pc, log, request, wire, script, inflight, sent, peer, response, result>>

----------------------------------------------------------------------------
(* Characters                                                              *)

CR == "CR"
LF == "LF"
SP == "SP"
TAB == "TAB"

CRLF == <<CR, LF>>
Version == <<"H","T","T","P","/","1",".","1">>
CRLFCRLF == <<CR, LF, CR, LF>>

Upper == <<"A","B","C","D","E","F","G","H","I","J","K","L","M",
           "N","O","P","Q","R","S","T","U","V","W","X","Y","Z">>
Lower == <<"a","b","c","d","e","f","g","h","i","j","k","l","m",
           "n","o","p","q","r","s","t","u","v","w","x","y","z">>
Digits == <<"0","1","2","3","4","5","6","7","8","9">>

\* char::is_whitespace, restricted to the characters of the model
IsWhitespace(c) == c \in {SP, TAB, CR, LF}

IsUpper(c) == \E i \in 1..26 : Upper[i] = c

IsDigit(c) == \E i \in 1..10 : Digits[i] = c

DigitValue(c) == (CHOOSE i \in 1..10 : Digits[i] = c) - 1

\* Options: None is the empty sequence, Some(x) the one-element sequence
None == << >>
Some(x) == <<x>>

Min(a, b) == IF a < b THEN a ELSE b

----------------------------------------------------------------------------
(* str primitives used by the parser                                       *)

MatchesAt(s, pat, i) ==
    /\ i + Len(pat) - 1 <= Len(s)
    /\ \A j \in 1..Len(pat) : s[i + j - 1] = pat[j]

\* str::find: index of the first match of pat in s, 0 when there is none
Find(s, pat) ==
    LET hits == {i \in 1..Len(s) : MatchesAt(s, pat, i)}
    IN  IF hits = {} THEN 0
        ELSE CHOOSE i \in hits : \A j \in hits : i <= j

\* str::split(pat): the pieces between successive non-overlapping matches
RECURSIVE Split(_, _)
Split(s, pat) ==
    LET i == Find(s, pat)
    IN  IF i = 0 THEN <<s>>
        ELSE <<SubSeq(s, 1, i - 1)>> \o Split(SubSeq(s, i + Len(pat), Len(s)), pat)

\* str::lines: split_inclusive('\n'), each piece without its "\n" or "\r\n"
RECURSIVE Lines(_)
Lines(s) ==
    IF s = << >> THEN << >>
    ELSE LET i == Find(s, <<LF>>)
         IN  IF i = 0 THEN <<s>>
             ELSE LET l == SubSeq(s, 1, i - 1)
                      line == IF l # << >> /\ l[Len(l)] = CR
                              THEN SubSeq(l, 1, Len(l) - 1) ELSE l
                  IN  <<line>> \o Lines(SubSeq(s, i + 1, Len(s)))

\* str::trim
TrimStart(s) ==
    LET keep == {i \in 1..Len(s) : ~IsWhitespace(s[i])}
    IN  IF keep = {} THEN << >>
        ELSE SubSeq(s, CHOOSE i \in keep : \A j \in keep : i <= j, Len(s))

TrimEnd(s) ==
    LET keep == {i \in 1..Len(s) : ~IsWhitespace(s[i])}
    IN  IF keep = {} THEN << >>
        ELSE SubSeq(s, 1, CHOOSE i \in keep : \A j \in keep : i >= j)

Trim(s) == TrimEnd(TrimStart(s))

\* str::split_whitespace: the maximal runs of non-whitespace characters
RECURSIVE SplitWhitespace(_)
SplitWhitespace(s) ==
    LET t == TrimStart(s)
        ws == {i \in 1..Len(t) : IsWhitespace(t[i])}
        e == IF ws = {} THEN Len(t) + 1
             ELSE CHOOSE i \in ws : \A j \in ws : i <= j
    IN  IF t = << >> THEN << >>
        ELSE <<SubSeq(t, 1, e - 1)>> \o SplitWhitespace(SubSeq(t, e, Len(t)))

\* str::to_lowercase
LowerChar(c) == IF IsUpper(c) THEN Lower[CHOOSE i \in 1..26 : Upper[i] = c] ELSE c

to_lowercase(s) == [i \in 1..Len(s) |-> LowerChar(s[i])]

\* str::split_once(':'): Some(<<before, after>>) of the first colon
split_once(s) ==
    LET i == Find(s, <<":">>)
    IN  IF i = 0 THEN None
        ELSE Some(<<SubSeq(s, 1, i - 1), SubSeq(s, i + 1, Len(s))>>)

----------------------------------------------------------------------------
(* Response                                                                *)

\* the largest value of the status field's type
U16Max == 65535

\* u16 arithmetic that wraps around instead of failing
AccumulateWrapping(ds, acc) ==
    IF \E i \in 1..Len(ds) : ~IsDigit(ds[i]) THEN [ok |-> FALSE, val |-> 0]
    ELSE LET RECURSIVE go(_, _)
             go(d, a) == IF d = << >> THEN a
                         ELSE go(Tail(d), (a * 10 + DigitValue(d[1])) % (U16Max + 1))
         IN  [ok |-> TRUE, val |-> go(ds, acc)]

\* str::parse::<u16>: an optional '+', then digits, accumulated with
\* checked arithmetic; the result is [ok, val]
RECURSIVE AccumulateU16(_, _)
AccumulateU16(ds, acc) ==
    IF ds = << >> THEN [ok |-> TRUE, val |-> acc]
    ELSE IF ~IsDigit(ds[1]) THEN [ok |-> FALSE, val |-> 0]
    ELSE LET next == acc * 10 + DigitValue(ds[1])
         IN  IF next > U16Max THEN [ok |-> FALSE, val |-> 0]
             ELSE AccumulateU16(Tail(ds), next)

ParseU16(tok) ==
    IF tok = << >> THEN [ok |-> FALSE, val |-> 0]
    ELSE IF Len(tok) = 1 /\ tok[1] \in {"+", "-"} THEN [ok |-> FALSE, val |-> 0]
    ELSE IF tok[1] = "+" THEN AccumulateU16(Tail(tok), 0)
    ELSE AccumulateU16(tok, 0)

\* Result<Response>: a Response when ok, else the error message
OkResponse(status, headers, body_) ==
    [ok |-> TRUE, err |-> "", status |-> status, headers |-> headers, body |-> body_]

ErrResponse(msg) ==
    [ok |-> FALSE, err |-> msg, status |-> 0,
     headers |-> [k \in {} |-> << >>], body |-> None]

\* the status code is taken from the first token
parse_status_line_first_token(status_line) ==
    LET parts == SplitWhitespace(status_line)
    IN  IF Len(parts) < 1
        THEN [ok |-> FALSE, val |-> 0, err |-> "Invalid status line format"]
        ELSE LET r == ParseU16(parts[1])
             IN  [ok |-> r.ok, val |-> r.val,
                  err |-> IF r.ok THEN "" ELSE "Failed to parse status code"]

\* Response::parse_status_line: [ok, val, err]
parse_status_line(status_line) ==
    LET parts == SplitWhitespace(status_line)
    IN  IF Len(parts) < 2
        THEN [ok |-> FALSE, val |-> 0, err |-> "Invalid status line format"]
        ELSE LET r == ParseU16(parts[2])
             IN  [ok |-> r.ok, val |-> r.val,
                  err |-> IF r.ok THEN "" ELSE "Failed to parse status code"]

\* HashMap::insert
MapInsert(m, k, v) == [x \in DOMAIN m \cup {k} |-> IF x = k THEN v ELSE m[x]]

\* the header name is stored as written
InsertKeepCase(headers, line) ==
    LET kv == split_once(line)
    IN  IF kv = None THEN headers
        ELSE MapInsert(headers, Trim(kv[1][1]), Trim(kv[1][2]))

\* the body of the loop over the header lines, lib.rs 243-247
InsertHeaderLine(headers, line) ==
    LET kv == split_once(line)
    IN  IF kv = None THEN headers
        ELSE MapInsert(headers, to_lowercase(Trim(kv[1][1])), Trim(kv[1][2]))

RECURSIVE ParseHeaders(_, _)
ParseHeaders(lines, headers) ==
    IF lines = << >> THEN headers
    ELSE ParseHeaders(Tail(lines), InsertHeaderLine(headers, lines[1]))

\* Response::parse
ResponseParse(response_str) ==
    LET parts == Split(response_str, CRLFCRLF)
        headers_section == parts[1]
        body_ == IF Len(parts) >= 2 /\ parts[2] # << >> THEN Some(parts[2]) ELSE None
        lines == Lines(headers_section)
    IN  IF lines = << >> THEN ErrResponse("Missing status line")
        ELSE LET status == parse_status_line(lines[1])
             IN  IF ~status.ok THEN ErrResponse(status.err)
                 ELSE OkResponse(status.val,
                                 ParseHeaders(Tail(lines), [k \in {} |-> << >>]),
                                 body_)

\* the range taken with its upper end
is_success_inclusive(status) == status \in 200..300

\* Response::is_success
is_success(status) == status \in 200..299

\* Response::header
header(resp, name) ==
    IF to_lowercase(name) \in DOMAIN resp.headers
    THEN Some(resp.headers[to_lowercase(name)]) ELSE None

----------------------------------------------------------------------------
(* Bytes and text                                                          *)

\* str::as_bytes: the UTF-8 encoding; every character of the model is one
\* byte except e_acute (U+00E9, two bytes) and uFFFD (three bytes)
Utf8(c) ==
    IF c = "e_acute" THEN <<"xC3", "xA9">>
    ELSE IF c = "uFFFD" THEN <<"xEF", "xBF", "xBD">>
    ELSE <<c>>

RECURSIVE as_bytes(_)
as_bytes(s) ==
    IF s = << >> THEN << >>
    ELSE IF Len(s) = 1 THEN Utf8(s[1])
    ELSE as_bytes(SubSeq(s, 1, Len(s) \div 2)) \o as_bytes(SubSeq(s, Len(s) \div 2 + 1, Len(s)))

\* String::from_utf8_lossy: valid sequences decode, every other byte above
\* the ASCII range becomes U+FFFD
RECURSIVE from_utf8_lossy(_)
from_utf8_lossy(b) ==
    IF b = << >> THEN << >>
    ELSE IF Len(b) >= 2 /\ b[1] = "xC3" /\ b[2] = "xA9"
        THEN <<"e_acute">> \o from_utf8_lossy(SubSeq(b, 3, Len(b)))
    ELSE IF Len(b) >= 3 /\ b[1] = "xEF" /\ b[2] = "xBF" /\ b[3] = "xBD"
        THEN <<"uFFFD">> \o from_utf8_lossy(SubSeq(b, 4, Len(b)))
    ELSE IF b[1] \in {"xC3", "xA9", "xEF", "xBF", "xBD", "xFF"}
        THEN <<"uFFFD">> \o from_utf8_lossy(Tail(b))
    ELSE <<b[1]>> \o from_utf8_lossy(Tail(b))

\* the length in characters
CharCount(s) == Len(s)

\* str::len: the length in bytes
str_len(s) == Len(as_bytes(s))

\* format!("{}", n) of a usize
RECURSIVE ToDecimal(_)
ToDecimal(n) ==
    IF n < 10 THEN <<Digits[n + 1]>>
    ELSE ToDecimal(n \div 10) \o <<Digits[(n % 10) + 1]>>

----------------------------------------------------------------------------
(* HttpClient::build_request                                               *)

UserAgentLine ==
    <<"U","s","e","r","-","A","g","e","n","t",":",SP,"m","i","n","i","-","h","t","t","p",
      "-","c","l","i","e","n","t","/","0",".","1",".","0">> \o CRLF

ConnectionLine == <<"C","o","n","n","e","c","t","i","o","n",":",SP,"c","l","o","s","e">> \o CRLF

ContentTypeLine ==
    <<"C","o","n","t","e","n","t","-","T","y","p","e",":",SP,"a","p","p","l","i","c","a",
      "t","i","o","n","/","j","s","o","n">> \o CRLF

HostLine(host) == <<"H","o","s","t",":",SP>> \o host \o CRLF

ContentLengthLine(n) ==
    <<"C","o","n","t","e","n","t","-","L","e","n","g","t","h",":",SP>> \o ToDecimal(n) \o CRLF

HttpSuffix == <<SP>> \o Version \o CRLF

\* a body value is what serde_json::to_string makes of it:
\* [ser |-> "ok", json |-> text] or [ser |-> "err", json |-> << >>]
Serializable(json) == [ser |-> "ok", json |-> json]
Unserializable == [ser |-> "err", json |-> << >>]

\* the Result<String, HttpError> of build_request: [ok, text]
build_request(method_, host, full_path, body_) ==
    IF method_ = "GET"
    THEN [ok |-> TRUE,
          text |-> <<"G","E","T",SP>> \o full_path \o HttpSuffix \o HostLine(host)
                   \o UserAgentLine \o ConnectionLine \o CRLF]
    ELSE IF body_ # None /\ body_[1].ser = "err"
    THEN [ok |-> FALSE, text |-> << >>]
    ELSE LET json_body == IF body_ # None THEN body_[1].json ELSE << >>
         IN  [ok |-> TRUE,
              text |-> <<"P","O","S","T",SP>> \o full_path \o HttpSuffix \o HostLine(host)
                       \o UserAgentLine \o ContentTypeLine
                       \o ContentLengthLine(str_len(json_body)) \o ConnectionLine
                       \o CRLF \o json_body]

----------------------------------------------------------------------------
(* Results of fetch / make_request: Result<Response, HttpError>            *)

Pending == [kind |-> "Pending", resp |-> None]
Ok(resp) == [kind |-> "Ok", resp |-> Some(resp)]
Err(kind) == [kind |-> kind, resp |-> None]

\* make_request, lib.rs 151: Response::parse(..).map_err(ResponseParseError)
MapParseResult(r) == IF r.ok THEN Ok(r) ELSE Err("ResponseParseError")

----------------------------------------------------------------------------
(* Byte strings on a connection: sequences of runs <<byte, count>> in      *)
(* canonical form (adjacent runs differ, counts are positive)              *)

\* Vec::extend_from_slice
Concat(a, b) ==
    IF a = << >> THEN b
    ELSE IF b = << >> THEN a
    ELSE IF a[Len(a)][1] = b[1][1]
        THEN SubSeq(a, 1, Len(a) - 1) \o <<<<b[1][1], a[Len(a)][2] + b[1][2]>>>> \o Tail(b)
    ELSE a \o b

\* the runs of a plain sequence of bytes
RECURSIVE Runs(_)
Runs(bytes) ==
    IF bytes = << >> THEN << >>
    ELSE IF Len(bytes) = 1 THEN <<<<bytes[1], 1>>>>
    ELSE Concat(Runs(SubSeq(bytes, 1, Len(bytes) \div 2)),
                Runs(SubSeq(bytes, Len(bytes) \div 2 + 1, Len(bytes))))

\* the plain sequence of bytes of a sequence of runs
RECURSIVE Expand(_)
Expand(bs) ==
    IF bs = << >> THEN << >>
    ELSE [i \in 1..bs[1][2] |-> bs[1][1]] \o Expand(Tail(bs))

RECURSIVE Size(_)
Size(bs) == IF bs = << >> THEN 0 ELSE bs[1][2] + Size(Tail(bs))

\* the first n bytes, &buf[..n]
RECURSIVE Take(_, _)
Take(bs, n) ==
    IF n = 0 \/ bs = << >> THEN << >>
    ELSE IF bs[1][2] <= n THEN <<bs[1]>> \o Take(Tail(bs), n - bs[1][2])
    ELSE <<<<bs[1][1], n>>>>

\* what is left on the stream after n bytes were read
RECURSIVE Drop(_, _)
Drop(bs, n) ==
    IF n = 0 \/ bs = << >> THEN bs
    ELSE IF bs[1][2] <= n THEN Drop(Tail(bs), n - bs[1][2])
    ELSE <<<<bs[1][1], bs[1][2] - n>>>> \o Tail(bs)

----------------------------------------------------------------------------
(* Url::parse and the accessors fetch uses                                 *)

Calls == {"a", "b"}

H_IO == <<"h",".","i","o">>

UrlOk(scheme, host, port, path, query) ==
    [ok |-> TRUE, scheme |-> scheme, host |-> host, port |-> port, path |-> path,
     query |-> query]

UrlErr ==
    [ok |-> FALSE, scheme |-> "", host |-> None, port |-> None, path |-> << >>,
     query |-> None]

Urls == {"not a url", "http://h.io/get", "http://h.io:8080/s?q=1", "https://h.io/get",
         "ftp://host/resource", "mailto:a@h.io", "foo://h.io/p", "foo://h.io:9/p"}

\* Url::parse with scheme(), host_str(), port_or_known_default(), path(), query()
UrlParse(u) ==
    CASE u = "http://h.io/get" ->
            UrlOk("http", Some(H_IO), Some(80), <<"/","g","e","t">>, None)
      [] u = "http://h.io:8080/s?q=1" ->
            UrlOk("http", Some(H_IO), Some(8080), <<"/","s">>, Some(<<"q","=","1">>))
      [] u = "https://h.io/get" ->
            UrlOk("https", Some(H_IO), Some(443), <<"/","g","e","t">>, None)
      [] u = "ftp://host/resource" ->
            UrlOk("ftp", Some(<<"h","o","s","t">>), Some(21),
                  <<"/","r","e","s","o","u","r","c","e">>, None)
      [] u = "mailto:a@h.io" ->
            UrlOk("mailto", None, None, <<"a","@","h",".","i","o">>, None)
      [] u = "foo://h.io/p" -> UrlOk("foo", Some(H_IO), None, <<"/","p">>, None)
      [] u = "foo://h.io:9/p" -> UrlOk("foo", Some(H_IO), Some(9), <<"/","p">>, None)
      [] OTHER -> UrlErr

\* fetch, lib.rs 89-93
FullPath(u) == IF u.query # None THEN u.path \o <<"?">> \o u.query[1] ELSE u.path

----------------------------------------------------------------------------
(* HttpClient::fetch, one step per stage                                   *)

\* the size of read_response's buffer
BufSize == 4096

\* every scheme but https is taken for plaintext
ValidateOutcomeAnyScheme(u, tlsEnabled) ==
    IF ~u.ok THEN Err("InvalidUrl")
    ELSE IF u.host = None THEN Err("InvalidUrl")
    ELSE IF u.port = None THEN Err("InvalidUrl")
    ELSE IF u.scheme = "https" /\ ~tlsEnabled THEN Err("TlsError")
    ELSE Pending

\* fetch up to its first await (lib.rs 79-95, 112-115, 123-126): Pending when
\* the call goes on to connect, else the error returned
ValidateOutcome(u, tlsEnabled) ==
    IF ~u.ok THEN Err("InvalidUrl")
    ELSE IF u.host = None THEN Err("InvalidUrl")
    ELSE IF u.port = None THEN Err("InvalidUrl")
    ELSE IF u.scheme = "https" THEN (IF tlsEnabled THEN Pending ELSE Err("TlsError"))
    ELSE IF u.scheme = "http" THEN Pending
    ELSE Err("InvalidUrl")

\* a stage has run: its outcome is logged, the call moves on or returns
StageDone(c, stage, ok, nextpc, res) ==
    /\ log' = [log EXCEPT ![c] = Append(@, [stage |-> stage, ok |-> ok])]
    /\ pc' = [pc EXCEPT ![c] = nextpc]
    /\ result' = [result EXCEPT ![c] = res]

Validate(c) ==
    /\ c \in active /\ pc[c] = "validate"
    /\ LET outcome == ValidateOutcome(UrlParse(url[c]), tls)
       IN  StageDone(c, "validate", outcome = Pending,
                     IF outcome = Pending THEN "connect" ELSE "done", outcome)
    /\ UNCHANGED <<otherVars, inputVars, request, wire, script, inflight, sent, peer, response>>

\* a failed connect is tried again
ConnectRetrying(c) ==
    /\ c \in active /\ pc[c] = "connect"
    /\ Len(log[c]) < 3
    /\ \E ok \in BOOLEAN :
          IF ok
          THEN /\ peer' = [peer EXCEPT ![c] = "open"]
               /\ StageDone(c, "connect", TRUE,
                            IF UrlParse(url[c]).scheme = "https" THEN "tls" ELSE "build",
                            Pending)
          ELSE /\ UNCHANGED peer
               /\ StageDone(c, "connect", FALSE, "connect", Pending)
    /\ UNCHANGED <<otherVars, inputVars, request, wire, script, inflight, sent, response>>

\* TcpStream::connect((host, port)).await, lib.rs 98-100 and 117-119
Connect(c) ==
    /\ c \in active /\ pc[c] = "connect"
    /\ \E ok \in BOOLEAN :
          IF ok
          THEN /\ peer' = [peer EXCEPT ![c] = "open"]
               /\ StageDone(c, "connect", TRUE,
                            IF UrlParse(url[c]).scheme = "https" THEN "tls" ELSE "build",
                            Pending)
          ELSE /\ UNCHANGED peer
               /\ StageDone(c, "connect", FALSE, "done", Err("ConnectionFailed"))
    /\ UNCHANGED <<otherVars, inputVars, request, wire, script, inflight, sent, response>>

\* TlsConnector::new() and connector.connect(host, conn).await, lib.rs 102-108
Tls(c) ==
    /\ c \in active /\ pc[c] = "tls"
    /\ \E outcome \in {"init failed", "handshake failed", "ok"} :
          IF outcome = "ok"
          THEN StageDone(c, "tls", TRUE, "build", Pending)
          ELSE StageDone(c, "tls", FALSE, "done", Err("TlsError"))
    /\ UNCHANGED <<otherVars, inputVars, request, wire, script, inflight, sent, peer, response>>

\* make_request, lib.rs 141
Build(c) ==
    /\ c \in active /\ pc[c] = "build"
    /\ LET u == UrlParse(url[c])
           r == build_request(method[c], u.host[1], FullPath(u), body[c])
       IN  IF r.ok
           THEN /\ request' = [request EXCEPT ![c] = Some(r.text)]
                /\ StageDone(c, "build", TRUE, "write", Pending)
           ELSE /\ UNCHANGED request
                /\ StageDone(c, "build", FALSE, "done", Err("RequestFailed"))
    /\ UNCHANGED <<otherVars, inputVars, wire, script, inflight, sent, peer, response>>

\* stream.write_all(request.as_bytes()).await, lib.rs 143-146, and the entry
\* of read_response, lib.rs 197-198
Write(c) ==
    /\ c \in active /\ pc[c] = "write"
    /\ \E ok \in BOOLEAN :
          IF ok
          THEN /\ wire' = [wire EXCEPT ![c] = Runs(as_bytes(request[c][1]))]
               /\ response' = [response EXCEPT ![c] = << >>]
               /\ StageDone(c, "write", TRUE, "read", Pending)
          ELSE /\ UNCHANGED <<wire, response>>
               /\ StageDone(c, "write", FALSE, "done", Err("RequestFailed"))
    /\ UNCHANGED <<otherVars, inputVars, request, script, inflight, sent, peer>>

\* the peer sends its next chunk
PeerSend(c) ==
    /\ c \in active /\ pc[c] = "read" /\ peer[c] = "open" /\ script[c] # << >>
    /\ inflight' = [inflight EXCEPT ![c] = Concat(@, Head(script[c]))]
    /\ sent' = [sent EXCEPT ![c] = Concat(@, Head(script[c]))]
    /\ script' = [script EXCEPT ![c] = Tail(@)]
    /\ UNCHANGED <<otherVars, inputVars, pc, log, request, wire, peer, response, result>>

\* the peer closes the connection after its last chunk
PeerClose(c) ==
    /\ c \in active /\ pc[c] = "read" /\ peer[c] = "open" /\ script[c] = << >>
    /\ peer' = [peer EXCEPT ![c] = "closed"]
    /\ UNCHANGED <<otherVars, inputVars, pc, log, request, wire, script, inflight, sent, response,
                   result>>

\* the connection breaks
PeerReset(c) ==
    /\ c \in active /\ pc[c] = "read" /\ peer[c] = "open"
    /\ peer' = [peer EXCEPT ![c] = "reset"]
    /\ UNCHANGED <<otherVars, inputVars, pc, log, request, wire, script, inflight, sent, response,
                   result>>

\* the byte counts one stream.read(&mut buf) may return when avail bytes wait
ReadSizes(avail) == {Min(BufSize, avail), (Min(BufSize, avail) + 1) \div 2}

\* the bytes read replace what was accumulated
ReadAppendReplacing(resp, data, n) == Take(data, n)

\* response.extend_from_slice(&buf[..n]), lib.rs 209
ReadAppend(resp, data, n) == Concat(resp, Take(data, n))

\* every call accumulates into one shared buffer
ReadShared(c) ==
    /\ c \in active /\ pc[c] = "read"
    /\ \/ /\ inflight[c] # << >>
          /\ \E n \in ReadSizes(Size(inflight[c])) :
                /\ response' = [d \in Calls |-> ReadAppend(response[d], inflight[c], n)]
                /\ inflight' = [inflight EXCEPT ![c] = Drop(@, n)]
          /\ UNCHANGED <<pc, log, result>>
       \/ /\ inflight[c] = << >> /\ peer[c] = "closed"
          /\ StageDone(c, "read", TRUE, "parse", Pending)
          /\ UNCHANGED <<inflight, response>>
       \/ /\ peer[c] = "reset"
          /\ StageDone(c, "read", FALSE, "done", Err("RequestFailed"))
          /\ UNCHANGED <<inflight, response>>
    /\ UNCHANGED <<otherVars, inputVars, request, wire, script, sent, peer>>

\* one turn of the loop of read_response, lib.rs 200-212
Read(c) ==
    /\ c \in active /\ pc[c] = "read"
    /\ \/ /\ inflight[c] # << >>
          /\ \E n \in ReadSizes(Size(inflight[c])) :
                /\ response' = [response EXCEPT ![c] = ReadAppend(@, inflight[c], n)]
                /\ inflight' = [inflight EXCEPT ![c] = Drop(@, n)]
          /\ UNCHANGED <<pc, log, result>>
       \/ /\ inflight[c] = << >> /\ peer[c] = "closed"
          /\ StageDone(c, "read", TRUE, "parse", Pending)
          /\ UNCHANGED <<inflight, response>>
       \/ /\ peer[c] = "reset"
          /\ StageDone(c, "read", FALSE, "done", Err("RequestFailed"))
          /\ UNCHANGED <<inflight, response>>
    /\ UNCHANGED <<otherVars, inputVars, request, wire, script, sent, peer>>

\* make_request, lib.rs 149-151
Parse(c) ==
    /\ c \in active /\ pc[c] = "parse"
    /\ LET response_str == from_utf8_lossy(Expand(response[c]))
           r == MapParseResult(ResponseParse(response_str))
       IN  StageDone(c, "parse", r.kind = "Ok", "done", r)
    /\ UNCHANGED <<otherVars, inputVars, request, wire, script, inflight, sent, peer, response>>

----------------------------------------------------------------------------
(* States in which a component of the model is not in use                  *)

ParseIdle == text = << >> /\ parsed = None /\ reported = None

SuccessIdle == rstatus = 0 /\ rsuccess = None

BuildIdle == breq = None /\ bout = None

NoBytes == [c \in Calls |-> << >>]

\* the state of the calls before any of them has taken a step
FetchStart ==
    /\ pc = [c \in Calls |-> "validate"]
    /\ log = [c \in Calls |-> << >>]
    /\ request = [c \in Calls |-> None]
    /\ wire = NoBytes
    /\ inflight = NoBytes
    /\ sent = NoBytes
    /\ peer = [c \in Calls |-> "none"]
    /\ response = NoBytes
    /\ result = [c \in Calls |-> Pending]

FetchIdle ==
    /\ tls = FALSE
    /\ active = {}
    /\ url = [c \in Calls |-> "not a url"]
    /\ method = [c \in Calls |-> "GET"]
    /\ body = [c \in Calls |-> None]
    /\ script = [c \in Calls |-> << >>]
    /\ FetchStart

----------------------------------------------------------------------------
(* Bounds                                                                  *)

MaxHdr == 2        \* header lines in a generated response text
MaxDigits == 5     \* digits in a generated status code token
MaxChunks == 2     \* chunks a peer sends to a call that runs alone
MaxBlocks == 2     \* blocks a peer sends to read_response
MaxConcChunks == 1 \* chunks a peer sends to each of two concurrent calls

----------------------------------------------------------------------------
(* Response texts given to the parser                                      *)

StatusLines == {
    Version \o <<SP,"2","0","0",SP,"O","K">>,
    Version \o <<SP,"2","0","4",SP,"N","o",SP,"C","o","n","t","e","n","t">>,
    Version,
    << >>,
    Version \o <<SP,"a","b","c">>,
    Version \o <<SP,"9","9","9","9","9",SP,"B","i","g">>,
    Version \o <<SP,"+","2","0","0">>,
    Version \o <<SP,"-","1">>,
    <<SP,SP>> \o Version \o <<TAB,"4","0","4",SP,SP,"N","F">>,
    Version \o <<SP,"3","0","1",SP,"L",":",SP,"x">> }

HeaderLines == {
    <<"A","b",":",SP,"j","s">>,
    <<"C","o","n","t","e","n","t","-","L","e","n","g","t","h",":",SP,"1">>,
    <<"a","B",":","h","t","m","l">>,
    <<SP,"X","-","P",SP,":",TAB,"a",":","b",SP,"c",SP>>,
    <<"n","o",SP,"c","o","l","o","n">>,
    <<"A",":","1",LF,"B",":","2",CR>> }

Tails == {
    << >>,
    CRLF,
    CRLFCRLF,
    CRLFCRLF \o <<"{","}">>,
    CRLFCRLF \o <<"a">> \o CRLFCRLF \o <<"b">>,
    CRLFCRLF \o CRLFCRLF \o <<"c">>,
    <<LF, LF, "d">> }

RECURSIVE JoinLines(_)
JoinLines(ls) == IF ls = << >> THEN << >> ELSE CRLF \o ls[1] \o JoinLines(Tail(ls))

SeqsUpTo(S, n) == UNION {[1..k -> S] : k \in 0..n}

StatusDigits == {"0", "3", "5", "6", "9"}

\* the status lines each followed by a tail; three of them followed by header
\* lines and a tail; "HTTP/1.1 " followed by digits
ResponseTexts ==
    {sl \o tl : sl \in StatusLines, tl \in Tails}
    \cup {sl \o JoinLines(hs) \o tl :
             sl \in {Version \o <<SP,"2","0","0",SP,"O","K">>,
                     Version \o <<SP,"3","0","1",SP,"L",":",SP,"x">>,
                     Version \o <<SP,"a","b","c">>},
             hs \in SeqsUpTo(HeaderLines, MaxHdr), tl \in Tails}
    \cup {Version \o <<SP>> \o ds : ds \in SeqsUpTo(StatusDigits, MaxDigits)}

----------------------------------------------------------------------------
(* SpecParse: Response::parse applied to a response text                   *)

InitParse ==
    /\ text \in ResponseTexts
    /\ parsed = None
    /\ reported = None
    /\ SuccessIdle /\ BuildIdle /\ FetchIdle

\* make_request, lib.rs 151, on the decoded text
ParseCall ==
    /\ parsed = None
    /\ parsed' = Some(ResponseParse(text))
    /\ reported' = Some(MapParseResult(ResponseParse(text)))
    /\ UNCHANGED <<text, successVars, buildVars, fetchVars>>

NextParse == ParseCall

SpecParse == InitParse /\ [][NextParse]_vars

----------------------------------------------------------------------------
(* SpecSuccess: is_success on a Response with any status                   *)

InitSuccess ==
    /\ rstatus \in 0..U16Max
    /\ rsuccess = None
    /\ ParseIdle /\ BuildIdle /\ FetchIdle

IsSuccessCall ==
    /\ rsuccess = None
    /\ rsuccess' = Some(is_success(rstatus))
    /\ UNCHANGED <<parseVars, rstatus, buildVars, fetchVars>>

NextSuccess == IsSuccessCall

SpecSuccess == InitSuccess /\ [][NextSuccess]_vars

----------------------------------------------------------------------------
(* SpecBuild: build_request applied to its arguments                       *)

Hosts == {<<"h",".","i","o">>, <<"e","x","a","m","p","l","e",".","c","o","m">>}

FullPaths == {<<"/">>, <<"/","g","e","t">>, <<"/","s","?","q","=","1">>}

JsonTexts == {
    <<"{","}">>,
    <<"{","\"","a","\"",":","1","}">>,
    <<"\"","e_acute","\"">>,
    <<"[","1",",","2",",","3",",","4",",","5",",","6","]">>,
    <<"\"","e_acute","e_acute","e_acute","e_acute","\"">> }

Bodies == {None, Some(Unserializable)} \cup {Some(Serializable(j)) : j \in JsonTexts}

InitBuild ==
    /\ breq \in {Some([method |-> m, host |-> h, full_path |-> p, body |-> b]) :
                    m \in {"GET", "POST"}, h \in Hosts, p \in FullPaths, b \in Bodies}
    /\ bout = None
    /\ ParseIdle /\ SuccessIdle /\ FetchIdle

BuildCall ==
    /\ bout = None
    /\ bout' = Some(build_request(breq[1].method, breq[1].host, breq[1].full_path,
                                  breq[1].body))
    /\ UNCHANGED <<parseVars, successVars, breq, fetchVars>>

NextBuild == BuildCall

SpecBuild == InitBuild /\ [][NextBuild]_vars

----------------------------------------------------------------------------
(* Spec: one fetch call, from its arguments to its result                  *)

FetchBodies == {None, Some(Serializable(<<"{","}">>)), Some(Unserializable)}

\* the chunks of a peer: a status line; a header with a two-byte character,
\* the blank line and a body with a byte that is not UTF-8; a blank line; a
\* line that is no status line
Chunks == {
    Runs(Version \o <<SP,"2","0","0",SP,"O","K">> \o CRLF),
    Runs(<<"X",":","xC3","xA9">> \o CRLFCRLF \o <<"o","k","xFF">>),
    Runs(CRLFCRLF),
    Runs(Version \o <<SP,"a","b","c">> \o CRLF) }

Only(v, default) == [c \in Calls |-> IF c = "a" THEN v ELSE default]

Init ==
    /\ tls \in BOOLEAN
    /\ active = {"a"}
    /\ \E u \in Urls : url = Only(u, "not a url")
    /\ \E m \in {"GET", "POST"} : method = Only(m, "GET")
    /\ \E b \in FetchBodies : body = Only(b, None)
    /\ \E sc \in SeqsUpTo(Chunks, MaxChunks) : script = Only(sc, << >>)
    /\ FetchStart
    /\ ParseIdle /\ SuccessIdle /\ BuildIdle

Next ==
    \E c \in Calls :
        \/ Validate(c)
        \/ Connect(c)
        \/ Tls(c)
        \/ Build(c)
        \/ Write(c)
        \/ PeerSend(c)
        \/ PeerClose(c)
        \/ PeerReset(c)
        \/ Read(c)
        \/ Parse(c)

Spec == Init /\ [][Next]_vars

----------------------------------------------------------------------------
(* SpecRead: read_response on a stream whose peer sends blocks around the  *)
(* size of the buffer                                                      *)

Blocks == {
    <<<<"a", 1>>>>,
    <<<<"b", 4095>>>>,
    <<<<"a", 4096>>>>,
    <<<<"b", 4097>>>>,
    <<<<"a", 3000>>, <<"b", 3000>>, <<"a", 3000>>>> }

PlainUrl == "http://h.io/get"

PlainRequest == build_request("GET", H_IO, <<"/","g","e","t">>, None).text

\* the state of a GET of PlainUrl when make_request enters read_response
InitRead ==
    /\ tls = FALSE
    /\ active = {"a"}
    /\ url = Only(PlainUrl, "not a url")
    /\ method = [c \in Calls |-> "GET"]
    /\ body = [c \in Calls |-> None]
    /\ \E sc \in SeqsUpTo(Blocks, MaxBlocks) : script = Only(sc, << >>)
    /\ pc = Only("read", "validate")
    /\ log = Only(<<[stage |-> "validate", ok |-> TRUE], [stage |-> "connect", ok |-> TRUE],
                    [stage |-> "build", ok |-> TRUE], [stage |-> "write", ok |-> TRUE]>>,
                  << >>)
    /\ request = Only(Some(PlainRequest), None)
    /\ wire = Only(Runs(as_bytes(PlainRequest)), << >>)
    /\ inflight = NoBytes
    /\ sent = NoBytes
    /\ peer = Only("open", "none")
    /\ response = NoBytes
    /\ result = [c \in Calls |-> Pending]
    /\ ParseIdle /\ SuccessIdle /\ BuildIdle

NextRead == \E c \in Calls : PeerSend(c) \/ PeerClose(c) \/ PeerReset(c) \/ Read(c)

SpecRead == InitRead /\ [][NextRead]_vars

----------------------------------------------------------------------------
(* SpecConc: two fetch calls driven concurrently, each with its own peer   *)

\* the response of the peer of call c: its header value and its body are c
ResponseOf(c) ==
    Runs(<<"H",SP,"2","0","0">> \o CRLF \o <<"I",":",c>> \o CRLFCRLF \o <<c>>)

\* call a is a GET over http, call b a POST over https
InitConc ==
    /\ tls \in BOOLEAN
    /\ active = Calls
    /\ url = [c \in Calls |-> IF c = "a" THEN "http://h.io/get" ELSE "https://h.io/get"]
    /\ method = [c \in Calls |-> IF c = "a" THEN "GET" ELSE "POST"]
    /\ body = [c \in Calls |-> IF c = "a" THEN None ELSE Some(Serializable(<<"{","}">>))]
    /\ \E sa \in SeqsUpTo({ResponseOf("a")}, MaxConcChunks) :
       \E sb \in SeqsUpTo({ResponseOf("b")}, MaxConcChunks) :
          script = [c \in Calls |-> IF c = "a" THEN sa ELSE sb]
    /\ FetchStart
    /\ ParseIdle /\ SuccessIdle /\ BuildIdle

SpecConc == InitConc /\ [][Next]_vars

----------------------------------------------------------------------------
(* Vocabulary of the properties, stated on the input text itself           *)

HeaderSectionOf(t) ==
    IF Find(t, CRLFCRLF) = 0 THEN t ELSE SubSeq(t, 1, Find(t, CRLFCRLF) - 1)

AfterFirstSeparator(t) == SubSeq(t, Find(t, CRLFCRLF) + 4, Len(t))

HasStatusLine(t) == Lines(HeaderSectionOf(t)) # << >>

StatusTokens(t) == SplitWhitespace(Lines(HeaderSectionOf(t))[1])

\* a decimal non-negative integer: digits, optionally signed with '+'
IsDecimal(tok) ==
    LET ds == IF tok # << >> /\ tok[1] = "+" THEN Tail(tok) ELSE tok
    IN  ds # << >> /\ \A i \in 1..Len(ds) : IsDigit(ds[i])

RECURSIVE DecimalOf(_, _)
DecimalOf(ds, acc) ==
    IF ds = << >> THEN acc
    ELSE IF ds[1] = "+" THEN DecimalOf(Tail(ds), acc)
    ELSE DecimalOf(Tail(ds), acc * 10 + DigitValue(ds[1]))

HeaderLinesOf(t) == Tail(Lines(HeaderSectionOf(t)))

HasColon(l) == \E i \in 1..Len(l) : l[i] = ":"

FirstColon(l) == CHOOSE i \in 1..Len(l) : l[i] = ":" /\ \A j \in 1..(i - 1) : l[j] # ":"

NameOf(l) == LET i == FirstColon(l) IN Trim(SubSeq(l, 1, i - 1))

ValueOf(l) == LET i == FirstColon(l) IN Trim(SubSeq(l, i + 1, Len(l)))

LowerCased(s) == [i \in 1..Len(s) |-> LowerChar(s[i])]

IsTrimmed(s) == s = << >> \/ (~IsWhitespace(s[1]) /\ ~IsWhitespace(s[Len(s)]))

IsLowerCased(s) == \A i \in 1..Len(s) : ~IsUpper(s[i])

UpperChar(c) ==
    IF \E i \in 1..26 : Lower[i] = c THEN Upper[CHOOSE i \in 1..26 : Lower[i] = c] ELSE c

CaseVariants(s) ==
    {s, [i \in 1..Len(s) |-> UpperChar(s[i])], [i \in 1..Len(s) |-> LowerChar(s[i])],
     [i \in 1..Len(s) |-> IF i % 2 = 0 THEN UpperChar(s[i]) ELSE LowerChar(s[i])]}

----------------------------------------------------------------------------
(* Properties of Response::parse                                           *)

\* C1: after a successful parse the body is all of the text after the first
\* CRLFCRLF, later CRLFCRLF included, and is None exactly when there is no
\* CRLFCRLF or nothing follows the first one.
C1_BodyIsAllAfterFirstSeparator ==
    (parsed # None /\ parsed[1].ok) =>
        parsed[1].body =
            IF Find(text, CRLFCRLF) = 0 \/ AfterFirstSeparator(text) = << >>
            THEN None ELSE Some(AfterFirstSeparator(text))

\* C2 as stated: every decimal non-negative second token of the status line,
\* of whatever size, parses and becomes the status.
C2_AnyIntegerAccepted ==
    (parsed # None /\ HasStatusLine(text) /\ Len(StatusTokens(text)) >= 2
        /\ IsDecimal(StatusTokens(text)[2])) =>
        /\ parsed[1].ok
        /\ parsed[1].status = DecimalOf(StatusTokens(text)[2], 0)

\* C2 amended: a decimal second token of value 0..65535 parses and becomes
\* the status; a decimal second token above 65535 makes the parse fail.
C2_U16Accepted ==
    (parsed # None /\ HasStatusLine(text) /\ Len(StatusTokens(text)) >= 2
        /\ IsDecimal(StatusTokens(text)[2])) =>
        IF DecimalOf(StatusTokens(text)[2], 0) <= 65535
        THEN parsed[1].ok /\ parsed[1].status = DecimalOf(StatusTokens(text)[2], 0)
        ELSE ~parsed[1].ok

C2_Witness ==
    /\ parsed # None /\ parsed[1].ok /\ parsed[1].status = 65535
    /\ StatusTokens(text)[2] = <<"6","5","5","3","5">>

\* C6: after a successful parse every key is trimmed and lower-cased and
\* every value trimmed; the map holds exactly the header lines with a colon,
\* split at the first colon, the last line of a name winning; header(name)
\* gives the value stored under the lower-cased name for every letter-case
\* variant of the name.
C6_HeaderMap ==
    (parsed # None /\ parsed[1].ok) =>
        LET h == parsed[1].headers
            ls == HeaderLinesOf(text)
            cl == {i \in 1..Len(ls) : HasColon(ls[i])}
            name == [i \in cl |-> NameOf(ls[i])]
            key == [i \in cl |-> LowerCased(name[i])]
            last == [i \in cl |-> CHOOSE j \in cl :
                                      key[j] = key[i] /\ \A m \in cl : key[m] = key[i] => m <= j]
            value == [i \in cl |-> ValueOf(ls[last[i]])]
        IN  /\ \A k \in DOMAIN h : IsTrimmed(k) /\ IsLowerCased(k) /\ IsTrimmed(h[k])
            /\ DOMAIN h = {key[i] : i \in cl}
            /\ \A i \in cl : h[key[i]] = value[i]
            /\ \A i \in cl : \A v \in CaseVariants(name[i]) :
                   header(parsed[1], v) = Some(value[i])
            /\ \A i \in 1..Len(ls) :
                   (i \notin cl /\ Trim(ls[i]) \notin {key[j] : j \in cl}) =>
                       \A v \in CaseVariants(Trim(ls[i])) : header(parsed[1], v) = None

C6_Witness ==
    /\ parsed # None /\ parsed[1].ok
    /\ LET ls == HeaderLinesOf(text)
       IN  /\ \E i, j \in 1..Len(ls) :
                 /\ i < j /\ HasColon(ls[i]) /\ HasColon(ls[j])
                 /\ NameOf(ls[i]) # NameOf(ls[j])
                 /\ to_lowercase(NameOf(ls[i])) = to_lowercase(NameOf(ls[j]))
                 /\ ValueOf(ls[i]) # ValueOf(ls[j])
                 /\ parsed[1].headers[to_lowercase(NameOf(ls[i]))] = ValueOf(ls[j])
           /\ \E i \in 1..Len(ls) : ~HasColon(ls[i]) /\ ls[i] # << >>

\* C7 as stated: the parse fails exactly when there is no status line, the
\* status line has fewer than two tokens, or its second token is not a
\* non-negative integer; a failure is reported as ResponseParseError with no
\* Response.
C7_FailsExactlyOnStructure ==
    parsed # None =>
        /\ ~parsed[1].ok <=>
               \/ ~HasStatusLine(text)
               \/ Len(StatusTokens(text)) < 2
               \/ ~IsDecimal(StatusTokens(text)[2])
        /\ ~parsed[1].ok => reported = Some(Err("ResponseParseError"))
        /\ parsed[1].ok => reported = Some(Ok(parsed[1]))

\* C7 amended: the parse fails exactly when there is no status line, the
\* status line has fewer than two tokens, or its second token is not a
\* decimal integer in 0..65535; a failure is reported as ResponseParseError
\* with no Response.
C7_FailsExactlyOnStructureU16 ==
    parsed # None =>
        /\ ~parsed[1].ok <=>
               \/ ~HasStatusLine(text)
               \/ Len(StatusTokens(text)) < 2
               \/ ~IsDecimal(StatusTokens(text)[2])
               \/ DecimalOf(StatusTokens(text)[2], 0) > 65535
        /\ ~parsed[1].ok => reported = Some(Err("ResponseParseError"))
        /\ parsed[1].ok => reported = Some(Ok(parsed[1]))

C7_Witness ==
    /\ parsed # None /\ ~parsed[1].ok
    /\ reported = Some(Err("ResponseParseError"))
    /\ HasStatusLine(text) /\ Len(StatusTokens(text)) = 1

\* C8: is_success() is true exactly for the statuses 200..299, over every
\* status the Response type can hold.
C8_IsSuccess ==
    rsuccess # None =>
        /\ rsuccess[1] <=> (200 <= rstatus /\ rstatus <= 299)
        /\ rstatus \in {199, 300} => ~rsuccess[1]
        /\ rstatus \in {200, 299} => rsuccess[1]

C8_Witness == rsuccess = Some(FALSE) /\ rstatus = 300

----------------------------------------------------------------------------
(* Properties of build_request                                             *)

\* the UTF-8 length of a text, counted character by character
RECURSIVE ByteLength(_)
ByteLength(s) ==
    IF s = << >> THEN 0
    ELSE (IF s[1] = "e_acute" THEN 2 ELSE IF s[1] = "uFFFD" THEN 3 ELSE 1)
         + ByteLength(Tail(s))

ContentLengthName == <<"C","o","n","t","e","n","t","-","L","e","n","g","t","h">>

ContentLengthValues(req) ==
    LET ls == Lines(HeaderSectionOf(req))
    IN  {ValueOf(ls[i]) : i \in {j \in 1..Len(ls) : HasColon(ls[j])
                                     /\ NameOf(ls[j]) = ContentLengthName}}

\* C5: a POST request whose body serializes carries a Content-Length equal
\* to the byte length of the JSON text and, after the first blank line,
\* exactly that JSON text; without a body the JSON text is empty, the
\* Content-Length 0 and the payload empty.
C5_PostContentLength ==
    (bout # None /\ breq[1].method = "POST" /\ bout[1].ok) =>
        LET req == bout[1].text
            json == IF breq[1].body = None THEN << >> ELSE breq[1].body[1].json
        IN  /\ Find(req, CRLFCRLF) # 0
            /\ AfterFirstSeparator(req) = json
            /\ \E v \in ContentLengthValues(req) :
                   /\ ContentLengthValues(req) = {v}
                   /\ v # << >> /\ \A i \in 1..Len(v) : IsDigit(v[i])
                   /\ DecimalOf(v, 0) = ByteLength(json)
            /\ breq[1].body = None =>
                   ContentLengthValues(req) = {<<"0">>} /\ AfterFirstSeparator(req) = << >>

C5_Witness ==
    /\ bout # None /\ bout[1].ok /\ breq[1].method = "POST"
    /\ breq[1].body # None
    /\ ByteLength(breq[1].body[1].json) = 10
    /\ Len(breq[1].body[1].json) = 6
    /\ ContentLengthValues(bout[1].text) = {<<"1","0">>}

----------------------------------------------------------------------------
(* Properties of HttpClient::fetch                                         *)

ExpectedStages(c) ==
    IF UrlParse(url[c]).scheme = "https"
    THEN <<"validate", "connect", "tls", "build", "write", "read", "parse">>
    ELSE <<"validate", "connect", "build", "write", "read", "parse">>

ErrorKindOf(stage) ==
    CASE stage = "validate" -> "InvalidUrl"
      [] stage = "connect" -> "ConnectionFailed"
      [] stage = "tls" -> "TlsError"
      [] stage \in {"build", "write", "read"} -> "RequestFailed"
      [] stage = "parse" -> "ResponseParseError"

\* the stages run in their fixed order, each once, each after the success of
\* all earlier ones; the call has a result exactly when it is over, a
\* Response only when every stage succeeded
StagesInOrder(c) ==
    LET L == log[c]
        E == ExpectedStages(c)
    IN  /\ Len(L) <= Len(E)
        /\ \A i \in 1..Len(L) : L[i].stage = E[i]
        /\ \A i \in 1..(Len(L) - 1) : L[i].ok
        /\ (result[c].kind = "Pending") <=> (pc[c] # "done")
        /\ pc[c] # "done" => (\A i \in 1..Len(L) : L[i].ok) /\ pc[c] = E[Len(L) + 1]
        /\ result[c].kind = "Ok" =>
               Len(L) = Len(E) /\ L[Len(L)].ok /\ result[c].resp # None
        /\ result[c].kind \notin {"Pending", "Ok"} =>
               L # << >> /\ ~L[Len(L)].ok /\ result[c].resp = None

TlsNotCompiled(c) == UrlParse(url[c]).ok /\ UrlParse(url[c]).scheme = "https" /\ ~tls

\* C3 as stated: stages in order, at most once, and a failed call returns
\* the error kind of its first failing stage: InvalidUrl for URL validation,
\* ConnectionFailed for connect, TlsError for the handshake, RequestFailed
\* for build, write and read, ResponseParseError for parse.
C3_StagesAndErrorKinds ==
    \A c \in active :
        /\ StagesInOrder(c)
        /\ result[c].kind \notin {"Pending", "Ok"} =>
               result[c].kind = ErrorKindOf(log[c][Len(log[c])].stage)

\* C3 amended: as C3, except that a call that fails in URL validation
\* returns TlsError, not InvalidUrl, when the URL is https and TLS support
\* is not compiled in.
C3_StagesAndErrorKindsTls ==
    \A c \in active :
        /\ StagesInOrder(c)
        /\ result[c].kind \notin {"Pending", "Ok"} =>
               result[c].kind =
                   IF log[c][Len(log[c])].stage = "validate" /\ TlsNotCompiled(c)
                   THEN "TlsError"
                   ELSE ErrorKindOf(log[c][Len(log[c])].stage)

C3_Witness ==
    /\ pc["a"] = "done" /\ result["a"].kind = "Ok"
    /\ Len(log["a"]) = 7 /\ log["a"][3] = [stage |-> "tls", ok |-> TRUE]

\* C4: a call whose URL is malformed, has no host, has no port, has a scheme
\* other than http and https, or is https without TLS compiled in, never
\* connects, writes or reads, and returns InvalidUrl, in the last case
\* TlsError.
C4_NoConnectionOnBadUrl ==
    \A c \in active :
        LET u == UrlParse(url[c])
            bad == ~u.ok \/ u.host = None \/ u.port = None
                   \/ u.scheme \notin {"http", "https"}
        IN  (bad \/ TlsNotCompiled(c)) =>
                /\ \A i \in 1..Len(log[c]) : log[c][i].stage = "validate"
                /\ pc[c] \in {"validate", "done"}
                /\ peer[c] = "none" /\ request[c] = None
                /\ wire[c] = << >> /\ sent[c] = << >> /\ inflight[c] = << >>
                /\ response[c] = << >>
                /\ pc[c] = "done" =>
                       result[c] = IF bad THEN Err("InvalidUrl") ELSE Err("TlsError")

C4_Witness ==
    /\ url["a"] = "ftp://host/resource"
    /\ pc["a"] = "done" /\ result["a"] = Err("InvalidUrl")
    /\ log["a"] = <<[stage |-> "validate", ok |-> FALSE]>>

\* C9: read_response returns only on a zero-length read, and then exactly
\* the bytes the peer sent, in order, whatever the sizes of the chunks;
\* a failed read gives RequestFailed and no data; while the peer neither
\* closes nor fails the call does not complete.
C9_ReadUntilEof ==
    \A c \in active :
        /\ pc[c] = "read" => Concat(response[c], inflight[c]) = sent[c]
        /\ pc[c] = "parse" =>
               /\ peer[c] = "closed" /\ inflight[c] = << >>
               /\ response[c] = sent[c] /\ Size(response[c]) = Size(sent[c])
               /\ result[c] = Pending
        /\ pc[c] = "done" => peer[c] = "reset" /\ result[c] = Err("RequestFailed")
        /\ peer[c] = "open" => pc[c] = "read" /\ result[c] = Pending

C9_Witness ==
    /\ pc["a"] = "parse"
    /\ Size(response["a"]) = 4097 + 4095
    /\ response["a"] = <<<<"b", 4097 + 4095>>>>

\* the result of call c run alone with the connect, handshake, write and
\* read outcomes and the peer bytes that c itself met
EnvOk(c, stage) == \E i \in 1..Len(log[c]) : log[c][i].stage = stage /\ log[c][i].ok

Alone(c) ==
    LET u == UrlParse(url[c])
    IN  IF ValidateOutcome(u, tls) # Pending THEN ValidateOutcome(u, tls)
        ELSE IF ~EnvOk(c, "connect") THEN Err("ConnectionFailed")
        ELSE IF u.scheme = "https" /\ ~EnvOk(c, "tls") THEN Err("TlsError")
        ELSE IF ~build_request(method[c], u.host[1], FullPath(u), body[c]).ok
            THEN Err("RequestFailed")
        ELSE IF ~EnvOk(c, "write") THEN Err("RequestFailed")
        ELSE IF peer[c] = "reset" THEN Err("RequestFailed")
        ELSE MapParseResult(ResponseParse(from_utf8_lossy(Expand(sent[c]))))

\* the bytes of the request for /get on h.io, by method and body
RequestBytes ==
    [m \in {"GET", "POST"}, b \in FetchBodies \ {Some(Unserializable)} |->
        Runs(as_bytes(build_request(m, H_IO, <<"/","g","e","t">>, b).text))]

Mentions(resp, mark) ==
    \/ resp.body # None /\ \E i \in 1..Len(resp.body[1]) : resp.body[1][i] = mark
    \/ \E k \in DOMAIN resp.headers : \E i \in 1..Len(resp.headers[k]) :
           resp.headers[k][i] = mark

\* C10: under every interleaving of two calls, each call's result is the
\* one it would have alone with the same peer, each call's buffer holds
\* bytes of its own connection only, each stream carries its own call's
\* request, and no byte of one connection shows in the other's Response.
C10_CallsAreIndependent ==
    \A c \in active :
        /\ pc[c] = "done" => result[c] = Alone(c)
        /\ pc[c] = "read" => Concat(response[c], inflight[c]) = sent[c]
        /\ pc[c] = "parse" => response[c] = sent[c]
        /\ wire[c] # << >> => wire[c] = RequestBytes[method[c], body[c]]
        /\ \A d \in active \ {c} :
               result[c].kind = "Ok" => ~Mentions(result[c].resp[1], d)

C10_Witness ==
    /\ pc["a"] = "done" /\ result["a"].kind = "Ok" /\ result["a"].resp[1].body = Some(<<"a">>)
    /\ pc["b"] = "done" /\ result["b"].kind = "Ok" /\ result["b"].resp[1].body = Some(<<"b">>)

====
